---------------------------- MODULE Spec2Model ----------------------------
(***************************************************************************)
(* Model of the icelolly/go-errors package (src/errors.go, src/utils.go).  *)
(*                                                                         *)
(* The heap holds the allocated *Error values (a pointer is an index into  *)
(* `heap`, 0 is the nil pointer), `maps` holds the allocated field maps    *)
(* (a map reference is an index into `maps`, 0 is the nil map) and `call`  *)
(* records the last call made into the package with its arguments and its  *)
(* outcome.  Strings are sequences of byte values, so that concatenation   *)
(* and the byte-wise order used by sort.Strings are computed.              *)
(***************************************************************************)
EXTENDS Integers, Sequences, FiniteSets, TLC

VARIABLES heap, maps, call

vars == <<heap, maps, call>>

(***************************************************************************)
(* Bounds of the model.                                                    *)
(***************************************************************************)
\* longest chain of wrapped *Error values drawn as an input
MaxDepth == 3
\* longest chain drawn when every attribute of a node varies at once
MaxWideDepth == 2
\* longest argument list handed to newError
MaxArgs == 4
\* longest list of kinds handed to Is
MaxTags == 2
\* longest key/value list handed to WithFields
MaxKvs == 4

(***************************************************************************)
(* Strings (byte sequences) used as inputs.                                *)
(***************************************************************************)
sFoo == <<102,111,111>>
sFo == <<102,111>>
sBaz == <<98,97,122>>
sBar == <<98,97,114>>
sQux == <<113,117,120>>
sOops == <<111,111,112,115>>
sInner == <<105,110,110,101,114>>
sEOF == <<69,79,70>>
kTest == <<116,101,115,116>>
kIO == <<105,111>>
sCaller == <<109,97,105,110,46,102>>
sFile == <<102,46,103,111>>

\* the string returned by Message when no node carries a message
FallbackMessage ==
  <<65,110,32,105,110,116,101,114,110,97,108,32,101,114,114,111,114,32,
    104,97,115,32,111,99,99,117,114,114,101,100,46,32,80,108,101,97,115,
    101,32,99,111,110,116,97,99,116,32,116,101,99,104,110,105,99,97,108,
    32,115,117,112,112,111,114,116,46>>

(***************************************************************************)
(* Go values of type interface{}: a dynamic type, a string payload and a   *)
(* reference or number.                                                    *)
(***************************************************************************)
Val(t, s, id) == [t |-> t, s |-> s, id |-> id]
\* the nil interface value
NilV == Val("nil", <<>>, 0)
KindV(s) == Val("Kind", s, 0)
StrV(s) == Val("string", s, 0)
\* a *Error; id 0 is the nil pointer
PtrV(id) == Val("*Error", <<>>, id)
\* an error that is not an *Error (errors.New, io.EOF), known by identity
ForeignV(id) == Val("error", <<>>, id)
\* a map[string]interface{}; id 0 is the nil map
MapV(id) == Val("map", <<>>, id)
IntV(n) == Val("int", <<>>, n)

\* the text Error() of a foreign error returns
ForeignText(id) == IF id = 1 THEN sEOF ELSE sOops

EmptyMap == [k \in {} |-> NilV]

\* the zero Error struct
ZeroError ==
  [Kind |-> <<>>, Message |-> <<>>, Cause |-> NilV, Fields |-> 0,
   caller |-> <<>>, file |-> <<>>, line |-> 0]

\* what the runtime reports for the frame that called the constructor;
\* ok is FALSE when runtime.Callers or runtime.FuncForPC yields nothing
NoSite == [ok |-> FALSE, caller |-> <<>>, file |-> <<>>, line |-> 0]
SiteA == [ok |-> TRUE, caller |-> sCaller, file |-> sFile, line |-> 12]
Sites == {NoSite, SiteA}

(***************************************************************************)
(* errors.go: construction                                                 *)
(***************************************************************************)
Panicked(h) == [heap |-> h, ret |-> 0, panicked |-> TRUE]

\* a pass that takes a string in first position for the kind
newErrorArgPositional(h, err, args, i) ==
  LET v == args[i] IN
  CASE v.t = "Kind" \/ (v.t = "string" /\ i = 1) ->
         [heap |-> h, err |-> [err EXCEPT !.Kind = v.s], panicked |-> FALSE]
    [] v.t = "string" ->
         [heap |-> h, err |-> [err EXCEPT !.Message = v.s], panicked |-> FALSE]
    [] v.t = "*Error" ->
         IF v.id = 0
         THEN [heap |-> h, err |-> err, panicked |-> TRUE]
         ELSE [heap |-> Append(h, h[v.id]),
               err |-> [err EXCEPT !.Cause = PtrV(Len(h) + 1)],
               panicked |-> FALSE]
    [] v.t = "error" ->
         [heap |-> h, err |-> [err EXCEPT !.Cause = v], panicked |-> FALSE]
    [] v.t = "map" ->
         [heap |-> h, err |-> [err EXCEPT !.Fields = v.id], panicked |-> FALSE]
    [] OTHER -> [heap |-> h, err |-> err, panicked |-> TRUE]

\* a pass that stores the node under construction as its own cause
newErrorArgSelf(h, err, args, i) ==
  LET v == args[i] IN
  CASE v.t = "Kind" ->
         [heap |-> h, err |-> [err EXCEPT !.Kind = v.s], panicked |-> FALSE]
    [] v.t = "string" ->
         [heap |-> h, err |-> [err EXCEPT !.Message = v.s], panicked |-> FALSE]
    [] v.t = "*Error" ->
         IF v.id = 0
         THEN [heap |-> h, err |-> err, panicked |-> TRUE]
         ELSE [heap |-> h, err |-> [err EXCEPT !.Cause = PtrV(Len(h) + 1)],
               panicked |-> FALSE]
    [] v.t = "error" ->
         [heap |-> h, err |-> [err EXCEPT !.Cause = v], panicked |-> FALSE]
    [] v.t = "map" ->
         [heap |-> h, err |-> [err EXCEPT !.Fields = v.id], panicked |-> FALSE]
    [] OTHER -> [heap |-> h, err |-> err, panicked |-> TRUE]

\* a pass that stores the *Error handed in as the cause, without a copy
newErrorArgShared(h, err, args, i) ==
  LET v == args[i] IN
  CASE v.t = "Kind" ->
         [heap |-> h, err |-> [err EXCEPT !.Kind = v.s], panicked |-> FALSE]
    [] v.t = "string" ->
         [heap |-> h, err |-> [err EXCEPT !.Message = v.s], panicked |-> FALSE]
    [] v.t = "*Error" ->
         IF v.id = 0
         THEN [heap |-> h, err |-> err, panicked |-> TRUE]
         ELSE [heap |-> h, err |-> [err EXCEPT !.Cause = v], panicked |-> FALSE]
    [] v.t = "error" ->
         [heap |-> h, err |-> [err EXCEPT !.Cause = v], panicked |-> FALSE]
    [] v.t = "map" ->
         [heap |-> h, err |-> [err EXCEPT !.Fields = v.id], panicked |-> FALSE]
    [] OTHER -> [heap |-> h, err |-> err, panicked |-> TRUE]

\* one pass of the loop of newError over args[i]: the heap with the copy
\* made of a wrapped *Error, the node under construction, and whether the
\* argument made newError panic
newErrorArg(h, err, args, i) ==
  LET v == args[i] IN
  CASE v.t = "Kind" ->
         [heap |-> h, err |-> [err EXCEPT !.Kind = v.s], panicked |-> FALSE]
    [] v.t = "string" ->
         [heap |-> h, err |-> [err EXCEPT !.Message = v.s], panicked |-> FALSE]
    [] v.t = "*Error" ->
         IF v.id = 0
         THEN [heap |-> h, err |-> err, panicked |-> TRUE]
         ELSE [heap |-> Append(h, h[v.id]),
               err |-> [err EXCEPT !.Cause = PtrV(Len(h) + 1)],
               panicked |-> FALSE]
    [] v.t = "error" ->
         [heap |-> h, err |-> [err EXCEPT !.Cause = v], panicked |-> FALSE]
    [] v.t = "map" ->
         [heap |-> h, err |-> [err EXCEPT !.Fields = v.id], panicked |-> FALSE]
    [] OTHER -> [heap |-> h, err |-> err, panicked |-> TRUE]

\* the loop of newError from args[i] on; a panic leaves nothing allocated
\* by the call reachable, so the heap h0 of the call's start is kept
RECURSIVE newErrorLoop(_, _, _, _, _)
newErrorLoop(h0, h, err, args, i) ==
  IF i > Len(args)
  THEN [heap |-> Append(h, err), ret |-> Len(h) + 1, panicked |-> FALSE]
  ELSE LET s == newErrorArg(h, err, args, i) IN
       IF s.panicked THEN Panicked(h0)
       ELSE newErrorLoop(h0, s.heap, s.err, args, i + 1)

\* newError without the check of the argument count
newErrorUncounted(h, args) == newErrorLoop(h, h, ZeroError, args, 1)

\* newError: the result heap, the pointer returned and whether it panicked
newError(h, args) ==
  IF Len(args) = 0 THEN Panicked(h)
  ELSE newErrorLoop(h, h, ZeroError, args, 1)

\* updateCaller on the node at p
updateCaller(h, p, site) ==
  IF site.ok
  THEN [h EXCEPT ![p].caller = site.caller, ![p].file = site.file,
                 ![p].line = site.line]
  ELSE h

\* the body of New
New(h, args, site) ==
  LET r == newError(h, args) IN
  IF r.panicked THEN r
  ELSE [r EXCEPT !.heap = updateCaller(r.heap, r.ret, site)]

\* Wrap putting the cause in front of the arguments
WrapCauseFirst(h, cause, args, site) ==
  IF cause = NilV
  THEN [heap |-> h, ret |-> 0, panicked |-> FALSE]
  ELSE LET r == newError(h, <<cause>> \o args) IN
       IF r.panicked THEN r
       ELSE [r EXCEPT !.heap = updateCaller(r.heap, r.ret, site)]

\* the body of Wrap
Wrap(h, cause, args, site) ==
  IF cause = NilV
  THEN [heap |-> h, ret |-> 0, panicked |-> FALSE]
  ELSE LET r == newError(h, Append(args, cause)) IN
       IF r.panicked THEN r
       ELSE [r EXCEPT !.heap = updateCaller(r.heap, r.ret, site)]

(***************************************************************************)
(* errors.go: field attachment                                             *)
(***************************************************************************)
\* a write that leaves the map with the written key alone
MapSetOnly(m, f, k, v) == [m EXCEPT ![f] = [x \in {k} |-> v]]

\* m with key k of map f set to v
MapSet(m, f, k, v) ==
  [m EXCEPT ![f] = [x \in (DOMAIN m[f]) \cup {k} |->
                      IF x = k THEN v ELSE m[f][x]]]

\* the allocation `if e.Fields == nil { e.Fields = make(...) }`
EnsureFields(h, m, e) ==
  IF h[e].Fields = 0
  THEN [heap |-> [h EXCEPT ![e].Fields = Len(m) + 1],
        maps |-> Append(m, EmptyMap)]
  ELSE [heap |-> h, maps |-> m]

\* the body of WithField; a nil receiver panics on e.Fields
WithField(h, m, e, k, v) ==
  IF e = 0
  THEN [heap |-> h, maps |-> m, ret |-> 0, panicked |-> TRUE]
  ELSE LET a == EnsureFields(h, m, e) IN
       [heap |-> a.heap, maps |-> MapSet(a.maps, a.heap[e].Fields, k, v),
        ret |-> e, panicked |-> FALSE]

\* the loop of WithFields over the pairs from index i (1-based)
RECURSIVE WithFieldsLoop(_, _, _, _)
WithFieldsLoop(m, f, kvs, i) ==
  IF i > Len(kvs)
  THEN [maps |-> m, panicked |-> FALSE]
  ELSE IF kvs[i].t # "string"
       THEN [maps |-> m, panicked |-> TRUE]
       ELSE WithFieldsLoop(MapSet(m, f, kvs[i].s, kvs[i + 1]), f, kvs, i + 2)

\* WithFields making the map before it looks at the number of arguments
WithFieldsAllocFirst(h, m, e, kvs) ==
  IF e = 0
  THEN [heap |-> h, maps |-> m, ret |-> 0, panicked |-> TRUE]
  ELSE LET a == EnsureFields(h, m, e)
           l == WithFieldsLoop(a.maps, a.heap[e].Fields, kvs, 1)
       IN IF Len(kvs) % 2 # 0
          THEN [heap |-> a.heap, maps |-> a.maps, ret |-> 0, panicked |-> TRUE]
          ELSE [heap |-> a.heap, maps |-> l.maps,
                ret |-> IF l.panicked THEN 0 ELSE e, panicked |-> l.panicked]

\* the body of WithFields; Fatal(New(...)) always panics as New returns
\* a non-nil error
WithFields(h, m, e, kvs) ==
  IF Len(kvs) % 2 # 0 \/ e = 0
  THEN [heap |-> h, maps |-> m, ret |-> 0, panicked |-> TRUE]
  ELSE LET a == EnsureFields(h, m, e)
           l == WithFieldsLoop(a.maps, a.heap[e].Fields, kvs, 1)
       IN [heap |-> a.heap, maps |-> l.maps,
           ret |-> IF l.panicked THEN 0 ELSE e, panicked |-> l.panicked]

(***************************************************************************)
(* Strings: byte-wise order, sort.Strings, strconv.Itoa                    *)
(***************************************************************************)
RECURSIVE StrLess(_, _)
StrLess(a, b) ==
  IF b = <<>> THEN FALSE
  ELSE IF a = <<>> THEN TRUE
  ELSE IF a[1] # b[1] THEN a[1] < b[1]
  ELSE StrLess(Tail(a), Tail(b))

\* insertion of x into the sorted sequence s
RECURSIVE Insert(_, _)
Insert(s, x) ==
  IF s = <<>> THEN <<x>>
  ELSE IF StrLess(x, s[1]) THEN <<x>> \o s
  ELSE <<s[1]>> \o Insert(Tail(s), x)

RECURSIVE InsertionSort(_)
InsertionSort(s) ==
  IF s = <<>> THEN <<>>
  ELSE Insert(InsertionSort(SubSeq(s, 1, Len(s) - 1)), s[Len(s)])

\* the keys left in the order of the range over the map
SortStringsNot(s) == s

\* sort.Strings
SortStrings(s) == InsertionSort(s)

RECURSIVE Itoa(_)
Itoa(n) ==
  IF n < 10 THEN <<48 + n>> ELSE Itoa(n \div 10) \o <<48 + (n % 10)>>

\* the orders in which a range over a map with key set S may visit the keys
KeyOrders(S) ==
  {o \in [1..Cardinality(S) -> S] : \A i, j \in DOMAIN o : i # j => o[i] # o[j]}

(***************************************************************************)
(* Vocabulary of the properties: a chain as the sequence of its nodes.     *)
(***************************************************************************)
Range(f) == {f[i] : i \in DOMAIN f}

\* an error that is neither nil nor a nil *Error
NonNull(err) == err # NilV /\ err # PtrV(0)

\* the *Error nodes reached from err by following Cause, head first
RECURSIVE ChainIds(_, _)
ChainIds(h, err) ==
  IF err.t = "*Error" /\ err.id # 0
  THEN <<err.id>> \o ChainIds(h, h[err.id].Cause)
  ELSE <<>>

\* the foreign error the chain of err ends in, NilV when there is none
ChainTerminal(h, err) ==
  LET ids == ChainIds(h, err) IN
  IF ids = <<>> THEN (IF err.t = "error" THEN err ELSE NilV)
  ELSE LET c == h[ids[Len(ids)]].Cause IN IF c.t = "error" THEN c ELSE NilV

(***************************************************************************)
(* utils.go: Is                                                            *)
(***************************************************************************)
\* the comparison of one argument of Is with the node e
IsOne(e, val) ==
  IF val.t \in {"Kind", "string"}
  THEN val.t = "Kind" /\ e.Kind = val.s
  ELSE e.Cause = val

\* Is looking at the first of the kinds only
IsMatchFirstOnly(e, kind) == Len(kind) > 0 /\ IsOne(e, kind[1])

\* the loop over the kinds given to Is, for the node e
IsMatch(e, kind) == \E i \in 1..Len(kind) : IsOne(e, kind[i])

RECURSIVE IsRec(_, _, _)
IsRec(h, err, kind) ==
  IF err = NilV \/ err.t # "*Error"
  THEN [ret |-> FALSE, panicked |-> FALSE]
  ELSE IF err.id = 0
  THEN [ret |-> FALSE, panicked |-> TRUE]
  ELSE LET e == h[err.id] IN
       IF IsMatch(e, kind) THEN [ret |-> TRUE, panicked |-> FALSE]
       ELSE IF e.Cause # NilV THEN IsRec(h, e.Cause, kind)
       ELSE [ret |-> FALSE, panicked |-> FALSE]

Is(h, err, kind) == IsRec(h, err, kind)

(***************************************************************************)
(* utils.go: Message                                                       *)
(***************************************************************************)
RECURSIVE MessageRec(_, _)
MessageRec(h, err) ==
  IF err = NilV THEN [ret |-> <<>>, panicked |-> FALSE]
  ELSE IF err.t = "*Error" /\ err.id = 0
  THEN [ret |-> <<>>, panicked |-> TRUE]
  ELSE IF err.t = "*Error" /\ h[err.id].Message # <<>>
  THEN [ret |-> h[err.id].Message, panicked |-> FALSE]
  ELSE IF err.t = "*Error" /\ h[err.id].Cause # NilV
  THEN MessageRec(h, h[err.id].Cause)
  ELSE [ret |-> FallbackMessage, panicked |-> FALSE]

\* Message handing out the text of the foreign error a chain ends in
MessageForeignText(h, err) ==
  LET r == MessageRec(h, err) IN
  IF ~r.panicked /\ r.ret = FallbackMessage /\ ChainTerminal(h, err) # NilV
  THEN [r EXCEPT !.ret = ForeignText(ChainTerminal(h, err).id)]
  ELSE r

\* Message answering a nil error with the fallback
MessageNilFallback(h, err) ==
  IF err = NilV THEN [ret |-> FallbackMessage, panicked |-> FALSE]
  ELSE MessageRec(h, err)

Message(h, err) == MessageRec(h, err)

(***************************************************************************)
(* utils.go: Fields, FieldsSlice                                           *)
(***************************************************************************)
\* a copy that keeps the value dst already holds for a key
CopyIntoKeep(dst, src) ==
  [k \in (DOMAIN dst) \cup (DOMAIN src) |->
     IF k \in DOMAIN dst THEN dst[k] ELSE src[k]]

\* `for k, v := range src { dst[k] = v }`
CopyInto(dst, src) ==
  [k \in (DOMAIN dst) \cup (DOMAIN src) |->
     IF k \in DOMAIN src THEN src[k] ELSE dst[k]]

\* the first half taking the map the cause returned as `fields`
FromCauseAlias(m, causeFields) ==
  [maps |-> m, ref |-> causeFields, panicked |-> FALSE]

\* the first half of Fields: a map made by the call holding what the cause
\* returned, when that is not nil; ref is the map `fields` refers to, 0 for
\* nil, and maps holds the map made
FromCause(m, causeFields) ==
  IF causeFields # 0
  THEN [maps |-> Append(m, CopyInto(EmptyMap, m[causeFields])),
        ref |-> Len(m) + 1, panicked |-> FALSE]
  ELSE [maps |-> m, ref |-> 0, panicked |-> FALSE]

\* the second half of Fields: `fields` becomes this node's own map when it
\* is nil, else the node's pairs are written into the map it refers to
MergeOwn(m, e, fields) ==
  IF e.Fields # 0
  THEN IF fields = 0
       THEN [maps |-> m, ref |-> e.Fields, panicked |-> FALSE]
       ELSE [maps |-> [m EXCEPT ![fields] = CopyInto(m[fields], m[e.Fields])],
             ref |-> fields, panicked |-> FALSE]
  ELSE [maps |-> m, ref |-> fields, panicked |-> FALSE]

\* Fields on the maps m: the maps after the call, the map returned (0 for
\* nil) and whether the call panicked
RECURSIVE FieldsRec(_, _, _)
FieldsRec(h, m, err) ==
  IF err = NilV \/ err.t # "*Error"
  THEN [maps |-> m, ref |-> 0, panicked |-> FALSE]
  ELSE IF err.id = 0 THEN [maps |-> m, ref |-> 0, panicked |-> TRUE]
  ELSE LET e == h[err.id]
           c == IF e.Cause # NilV THEN FieldsRec(h, m, e.Cause)
                ELSE [maps |-> m, ref |-> 0, panicked |-> FALSE]
           f == FromCause(c.maps, c.ref)
       IN IF c.panicked THEN c
          ELSE MergeOwn(f.maps, e, f.ref)

\* the result of Fields: nil or the contents val of the map ref, and the
\* maps as the call leaves them
Fields(h, m, err) ==
  LET r == FieldsRec(h, m, err) IN
  [isnil |-> r.ref = 0,
   val |-> IF r.ref = 0 THEN EmptyMap ELSE r.maps[r.ref],
   ref |-> r.ref, panicked |-> r.panicked, maps |-> r.maps]

\* the slice built from the sorted keys
RECURSIVE Flatten(_, _)
Flatten(fieldKeys, fieldMap) ==
  IF fieldKeys = <<>> THEN <<>>
  ELSE <<StrV(fieldKeys[1]), fieldMap[fieldKeys[1]]>>
         \o Flatten(Tail(fieldKeys), fieldMap)

\* the body of FieldsSlice after Fields returned fieldMap and the range
\* over it visited the keys in `order`; a slice nothing was appended to
\* is nil
SliceOf(fieldMap, order) ==
  LET fieldKeys == SortStrings(order)
      fields == Flatten(fieldKeys, fieldMap.val)
  IN [isnil |-> fields = <<>>, seq |-> fields, panicked |-> FALSE]

FieldsSlice(h, m, err, order) ==
  IF err = NilV THEN [isnil |-> TRUE, seq |-> <<>>, panicked |-> FALSE]
  ELSE LET fieldMap == Fields(h, m, err) IN
       IF fieldMap.panicked
       THEN [isnil |-> TRUE, seq |-> <<>>, panicked |-> TRUE]
       ELSE SliceOf(fieldMap, order)

(***************************************************************************)
(* utils.go: Stack                                                         *)
(***************************************************************************)
\* a frame whose message is resolved with the fallback
NodeFrameResolved(e) ==
  [Kind |-> e.Kind,
   Message |-> IF e.Message = <<>> THEN FallbackMessage ELSE e.Message,
   Fields |-> e.Fields, Caller |-> e.caller, File |-> e.file,
   Line |-> e.line]

\* the frame of an *Error
NodeFrame(e) ==
  [Kind |-> e.Kind, Message |-> e.Message, Fields |-> e.Fields,
   Caller |-> e.caller, File |-> e.file, Line |-> e.line]

\* the frame of an error that is not an *Error
ForeignFrame(err) ==
  [Kind |-> <<>>, Message |-> ForeignText(err.id), Fields |-> 0,
   Caller |-> <<>>, File |-> <<>>, Line |-> 0]

RECURSIVE StackLoop(_, _, _)
StackLoop(h, err, stack) ==
  IF err = NilV THEN [isnil |-> FALSE, seq |-> stack, panicked |-> FALSE]
  ELSE IF err.t # "*Error"
  THEN [isnil |-> FALSE, seq |-> Append(stack, ForeignFrame(err)),
        panicked |-> FALSE]
  ELSE StackLoop(h, h[err.id].Cause, Append(stack, NodeFrame(h[err.id])))

\* a nil *Error handed in as an error panics in the sizing loop, which
\* reads e.Cause
Stack(h, err) ==
  IF err = NilV THEN [isnil |-> FALSE, seq |-> <<>>, panicked |-> FALSE]
  ELSE IF err.t = "*Error" /\ err.id = 0
  THEN [isnil |-> TRUE, seq |-> <<>>, panicked |-> TRUE]
  ELSE StackLoop(h, err, <<>>)

(***************************************************************************)
(* errors.go: format                                                       *)
(***************************************************************************)
lError == <<69,114,114,111,114>>
lOpenB == <<91>>
lCloseB == <<93>>
lColon == <<58,32>>
lSpace == <<32>>
lOpenP == <<40>>
lCloseP == <<41>>
lNL == <<10>>
lIndent == <<32,32,32,32>>
lFile == <<70,105,108,101,58,32,34>>
lLine == <<34,44,32,108,105,110,101,32>>
lWithFields == <<87,105,116,104,32,102,105,101,108,100,115,58,10>>
lDash == <<45,32,34>>
lQuoteColon == <<34,58,32>>
lCausedBy == <<67,97,117,115,101,100,32,98,121>>
lFatal == <<102,97,116,97,108,32,101,114,114,111,114,58,32>>
lNLNL == <<10,10>>
lNilV == <<60,110,105,108,62>>
lWrapNil == <<101,114,114,111,114,115,58,32,97,116,116,101,109,112,116,101,100,32,116,111,32,119,114,97,112,32,110,105,108,32,42,69,114,114,111,114>>

\* a pad that writes the padding to an empty buffer too
padAlways(buf, p) == buf \o p

\* pad: the padding is written only to a buffer that is not empty
pad(buf, p) == IF Len(buf) > 0 THEN buf \o p ELSE buf

\* fmt.Sprintf("%v", v) for the values used as field values
SprintV(v) ==
  IF v.t = "string" \/ v.t = "Kind" THEN v.s
  ELSE IF v.t = "int" THEN Itoa(v.id)
  ELSE lNilV

\* the lines written for the sorted field keys
RECURSIVE FieldLines(_, _)
FieldLines(fieldKeys, f) ==
  IF fieldKeys = <<>> THEN <<>>
  ELSE lIndent \o lDash \o fieldKeys[1] \o lQuoteColon
         \o SprintV(f[fieldKeys[1]]) \o lNL \o FieldLines(Tail(fieldKeys), f)

\* the block written for a node when asStack is set; the keys are sorted,
\* so the order of the range over the map does not show
StackBlock(m, e) ==
  lNL \o lIndent \o lFile \o e.file \o lLine \o Itoa(e.line) \o lNL
    \o (IF e.Fields # 0 /\ DOMAIN m[e.Fields] # {}
        THEN lIndent \o lWithFields
               \o FieldLines(SortStrings(CHOOSE o \in KeyOrders(DOMAIN m[e.Fields]) : TRUE),
                             m[e.Fields])
        ELSE <<>>)

\* what formatAccumulator writes for the node itself, before its cause
OwnPart(m, e, buf, asStack, isCause) ==
  LET b0 == IF asStack /\ ~isCause THEN buf \o lError ELSE buf
      b1 == IF e.caller # <<>>
            THEN pad(b0, lColon) \o lOpenB \o e.caller \o lCloseB ELSE b0
      b2 == IF e.Message # <<>> THEN pad(b1, lColon) \o e.Message ELSE b1
      b3 == IF e.Kind # <<>>
            THEN pad(b2, lSpace) \o lOpenP \o e.Kind \o lCloseP ELSE b2
  IN IF asStack THEN b3 \o StackBlock(m, e) ELSE b3

RECURSIVE formatAccumulator(_, _, _, _, _, _)
formatAccumulator(h, m, id, buf, asStack, isCause) ==
  LET e == h[id]
      b4 == OwnPart(m, e, buf, asStack, isCause)
      b5 == IF asStack THEN b4 \o lCausedBy ELSE b4
  IN IF e.Cause = NilV THEN b4
     ELSE IF e.Cause.t = "*Error"
     THEN formatAccumulator(h, m, e.Cause.id, b5, asStack, TRUE)
     ELSE pad(b5, lColon) \o ForeignText(e.Cause.id)

format(h, m, id, asStack) == formatAccumulator(h, m, id, <<>>, asStack, FALSE)

(***************************************************************************)
(* utils.go: Fatal                                                         *)
(***************************************************************************)
\* the node Fatal prints: the wrapper, or the error itself when the
\* wrapper has the same file, line and caller
FatalSubject(h2, err, wrapped) ==
  IF err.t = "*Error"
     /\ h2[err.id].file = h2[wrapped].file
     /\ h2[err.id].line = h2[wrapped].line
     /\ h2[err.id].caller = h2[wrapped].caller
  THEN err.id
  ELSE wrapped

\* Fatal printing the chain with %v, on one line
FatalCompact(h, m, err, site) ==
  IF err = NilV THEN [panicked |-> FALSE, payload |-> <<>>, ptype |-> "none"]
  ELSE LET r == newError(h, <<err>>) IN
       IF r.panicked
       THEN [panicked |-> TRUE, payload |-> lWrapNil, ptype |-> "string"]
       ELSE LET h2 == updateCaller(r.heap, r.ret, site)
                w == FatalSubject(h2, err, r.ret)
            IN [panicked |-> TRUE,
                payload |-> lFatal \o Message(h2, PtrV(w)).ret \o lNLNL
                              \o format(h2, m, w, FALSE),
                ptype |-> "string"]

\* Fatal: whether it panics and the value handed to panic; the nodes it
\* allocates are not reachable after the panic
Fatal(h, m, err, site) ==
  IF err = NilV THEN [panicked |-> FALSE, payload |-> <<>>, ptype |-> "none"]
  ELSE LET r == newError(h, <<err>>) IN
       IF r.panicked
       THEN [panicked |-> TRUE, payload |-> lWrapNil, ptype |-> "string"]
       ELSE LET h2 == updateCaller(r.heap, r.ret, site)
                w == FatalSubject(h2, err, r.ret)
            IN [panicked |-> TRUE,
                payload |-> lFatal \o Message(h2, PtrV(w)).ret \o lNLNL
                              \o format(h2, m, w, TRUE),
                ptype |-> "string"]

(***************************************************************************)
(* Calls into the package.  `call` records the call: the operation, the    *)
(* receiver of a method, the error handed in, the variadic arguments, the  *)
(* call site the runtime reports, the order in which a range over a map    *)
(* visited its keys, the value returned and whether the call panicked.     *)
(***************************************************************************)
MkCall(op, recv, err, args, site, order, ret, panicked) ==
  [op |-> op, recv |-> recv, err |-> err, args |-> args, site |-> site,
   order |-> order, ret |-> ret, panicked |-> panicked]

NoCall == MkCall("none", 0, NilV, <<>>, NoSite, <<>>, NilV, FALSE)

CallNew(args, site) ==
  LET r == New(heap, args, site) IN
  /\ heap' = r.heap
  /\ call' = MkCall("New", 0, NilV, args, site, <<>>, PtrV(r.ret), r.panicked)
  /\ UNCHANGED maps

CallWrap(cause, args, site) ==
  LET r == Wrap(heap, cause, args, site) IN
  /\ heap' = r.heap
  /\ call' = MkCall("Wrap", 0, cause, args, site, <<>>, PtrV(r.ret), r.panicked)
  /\ UNCHANGED maps

CallWithField(e, k, v) ==
  LET r == WithField(heap, maps, e, k, v) IN
  /\ heap' = r.heap
  /\ maps' = r.maps
  /\ call' = MkCall("WithField", e, NilV, <<StrV(k), v>>, NoSite, <<>>,
                    PtrV(r.ret), r.panicked)

CallWithFields(e, kvs) ==
  LET r == WithFields(heap, maps, e, kvs) IN
  /\ heap' = r.heap
  /\ maps' = r.maps
  /\ call' = MkCall("WithFields", e, NilV, kvs, NoSite, <<>>,
                    PtrV(r.ret), r.panicked)

CallIs(err, kind) ==
  LET r == Is(heap, err, kind) IN
  /\ call' = MkCall("Is", 0, err, kind, NoSite, <<>>, r.ret, r.panicked)
  /\ UNCHANGED <<heap, maps>>

CallMessage(err) ==
  LET r == Message(heap, err) IN
  /\ call' = MkCall("Message", 0, err, <<>>, NoSite, <<>>, r.ret, r.panicked)
  /\ UNCHANGED <<heap, maps>>

\* the maps made by Fields stay allocated next to those of the nodes
CallFields(err) ==
  LET r == Fields(heap, maps, err) IN
  /\ maps' = r.maps
  /\ call' = MkCall("Fields", 0, err, <<>>, NoSite, <<>>,
                    [isnil |-> r.isnil, val |-> r.val, ref |-> r.ref,
                     panicked |-> r.panicked], r.panicked)
  /\ UNCHANGED heap

CallFieldsSlice(err) ==
  \E order \in KeyOrders(DOMAIN Fields(heap, maps, err).val) :
    LET r == FieldsSlice(heap, maps, err, order) IN
    /\ maps' = IF err = NilV THEN maps ELSE Fields(heap, maps, err).maps
    /\ call' = MkCall("FieldsSlice", 0, err, <<>>, NoSite, order, r, r.panicked)
    /\ UNCHANGED heap

CallStack(err) ==
  LET r == Stack(heap, err) IN
  /\ call' = MkCall("Stack", 0, err, <<>>, NoSite, <<>>, r, r.panicked)
  /\ UNCHANGED <<heap, maps>>

CallFatal(err, site) ==
  LET r == Fatal(heap, maps, err, site) IN
  /\ call' = MkCall("Fatal", 0, err, <<>>, site, <<>>, r, r.panicked)
  /\ UNCHANGED <<heap, maps>>

\* e.Error(); a nil receiver panics on e.caller
CallError(e) ==
  /\ call' = MkCall("Error", e, NilV, <<>>, NoSite, <<>>,
                    IF e = 0 THEN <<>> ELSE format(heap, maps, e, FALSE), e = 0)
  /\ UNCHANGED <<heap, maps>>

\* e.Format(s, c) for the verb c, with or without the flag '+'; the value
\* returned is what is written to s
CallFormat(e, c, plus) ==
  /\ call' = MkCall("Format", e, NilV, <<StrV(c), StrV(IF plus THEN <<43>> ELSE <<>>)>>,
                    NoSite, <<>>,
                    IF e = 0 THEN <<>>
                    ELSE format(heap, maps, e, c = <<118>> /\ plus), e = 0)
  /\ UNCHANGED <<heap, maps>>

\* the caller's assignments to the exported fields of a node
AssignKind(e, k) ==
  /\ heap' = [heap EXCEPT ![e].Kind = k]
  /\ call' = MkCall("AssignKind", e, NilV, <<KindV(k)>>, NoSite, <<>>, NilV, FALSE)
  /\ UNCHANGED maps

AssignMessage(e, s) ==
  /\ heap' = [heap EXCEPT ![e].Message = s]
  /\ call' = MkCall("AssignMessage", e, NilV, <<StrV(s)>>, NoSite, <<>>, NilV, FALSE)
  /\ UNCHANGED maps

AssignCause(e, c) ==
  /\ heap' = [heap EXCEPT ![e].Cause = c]
  /\ call' = MkCall("AssignCause", e, NilV, <<c>>, NoSite, <<>>, NilV, FALSE)
  /\ UNCHANGED maps

(***************************************************************************)
(* Inputs: chains built by the constructors.  A level is one node of the   *)
(* chain: the root is made by New, every further level by Wrap of the      *)
(* level below, and a level with `has` set gets its fields attached by     *)
(* WithFields.                                                             *)
(***************************************************************************)
SeqsUpTo(S, n) == UNION {[1..k -> S] : k \in 0..n}

LevelArgs(lvl) ==
  (IF lvl.kind # <<>> THEN <<KindV(lvl.kind)>> ELSE <<>>)
    \o (IF lvl.msg # <<>> THEN <<StrV(lvl.msg)>> ELSE <<>>)

\* the state after the level is built on top of the chain headed by
\* st.head (0: no chain yet); rootCause is the cause given to the root
BuildLevel(st, lvl, rootCause) ==
  LET args == LevelArgs(lvl)
      r == IF st.head # 0 THEN Wrap(st.heap, PtrV(st.head), args, lvl.site)
           ELSE IF rootCause # NilV
           THEN Wrap(st.heap, rootCause, args, lvl.site)
           ELSE New(st.heap, IF args = <<>> THEN <<StrV(<<>>)>> ELSE args,
                    lvl.site)
      f == IF lvl.has THEN WithFields(r.heap, st.maps, r.ret, lvl.kvs)
           ELSE [heap |-> r.heap, maps |-> st.maps]
  IN [heap |-> f.heap, maps |-> f.maps, head |-> r.ret]

RECURSIVE BuildChain(_, _)
BuildChain(levels, rootCause) ==
  IF levels = <<>> THEN [heap |-> <<>>, maps |-> <<>>, head |-> 0]
  ELSE BuildLevel(BuildChain(SubSeq(levels, 1, Len(levels) - 1), rootCause),
                  levels[Len(levels)], rootCause)

\* the errors a caller can hand in: nil, a nil *Error, a foreign error and
\* every node allocated so far
Errs(h) == {NilV, PtrV(0), ForeignV(1)} \cup {PtrV(i) : i \in 1..Len(h)}

InitChain(Levels, depth, RootCauses) ==
  \E levels \in SeqsUpTo(Levels, depth), rootCause \in RootCauses :
    LET st == BuildChain(levels, rootCause) IN
    /\ heap = st.heap
    /\ maps = st.maps
    /\ call = NoCall

(***************************************************************************)
(* SpecIs: chains whose nodes differ in kind, queried by Is.               *)
(***************************************************************************)
IsLevels ==
  [kind : {<<>>, kTest, kIO}, msg : {sOops}, has : {FALSE}, kvs : {<<>>},
   site : {SiteA}]

IsTags ==
  {KindV(kTest), KindV(kIO), KindV(<<>>), StrV(kTest), ForeignV(1), PtrV(1),
   NilV}

InitIs == InitChain(IsLevels, MaxDepth, {NilV, ForeignV(1)})

\* a query leaves heap and maps as they are, so one query on each drawn
\* chain reaches every combination of chain, arguments and result
NextIs ==
  /\ call.op = "none"
  /\ \E err \in Errs(heap), kind \in SeqsUpTo(IsTags, MaxTags) : CallIs(err, kind)

SpecIs == InitIs /\ [][NextIs]_vars

AllKinds(args) == \A i \in DOMAIN args : args[i].t = "Kind"

(***************************************************************************)
(* C1: for a non-null chain and a non-empty list of Kind tags, Is returns  *)
(* true exactly when some *Error node reachable from err through causes    *)
(* (err included) has a kind equal to one of the tags; a foreign error     *)
(* contributes no kind.                                                    *)
(***************************************************************************)
C1_IsIffKindInChain ==
  (call.op = "Is" /\ NonNull(call.err) /\ Len(call.args) > 0
     /\ AllKinds(call.args))
    => /\ ~call.panicked
       /\ call.ret = (\E n \in Range(ChainIds(heap, call.err)) :
                        \E i \in DOMAIN call.args :
                          heap[n].Kind = call.args[i].s)

\* Is found the second of two tags on the third node of a chain that ends
\* in a foreign error
C1_Witness ==
  LET ids == ChainIds(heap, call.err) IN
  /\ call.op = "Is" /\ Len(call.args) = 2 /\ AllKinds(call.args)
  /\ call.ret = TRUE
  /\ Len(ids) = 3
  /\ ChainTerminal(heap, call.err) # NilV
  /\ heap[ids[3]].Kind = call.args[2].s
  /\ \A j \in 1..2 : \A i \in 1..2 : heap[ids[j]].Kind # call.args[i].s
  /\ heap[ids[3]].Kind # call.args[1].s

(***************************************************************************)
(* SpecMessage: chains whose nodes differ in message, queried by Message.  *)
(***************************************************************************)
MessageLevels ==
  [kind : {kTest}, msg : {<<>>, sOops, sInner}, has : {FALSE}, kvs : {<<>>},
   site : {SiteA}]

InitMessage == InitChain(MessageLevels, MaxDepth, {NilV, ForeignV(1)})

NextMessage ==
  /\ call.op = "none"
  /\ \E err \in Errs(heap) : CallMessage(err)

SpecMessage == InitMessage /\ [][NextMessage]_vars

\* the positions of the chain whose node has a message
WithMessage(h, ids) == {i \in DOMAIN ids : h[ids[i]].Message # <<>>}

Min(S) == CHOOSE x \in S : \A y \in S : x <= y

(***************************************************************************)
(* C2: for a non-null error, Message is the message of the first *Error,   *)
(* from err toward the root, whose message is not empty; when no *Error of *)
(* the chain has a message (err a foreign error, a chain ending in a       *)
(* foreign error with its own text) it is the fallback string, never the   *)
(* foreign error's text.                                                   *)
(***************************************************************************)
C2_MessageFirstNonEmpty ==
  (call.op = "Message" /\ NonNull(call.err))
    => LET ids == ChainIds(heap, call.err)
           at == WithMessage(heap, ids)
       IN /\ ~call.panicked
          /\ call.ret = IF at = {} THEN FallbackMessage
                        ELSE heap[ids[Min(at)]].Message

\* no node of a chain of three has a message and the chain ends in a
\* foreign error: the fallback is returned
C2_Witness ==
  LET ids == ChainIds(heap, call.err) IN
  /\ call.op = "Message"
  /\ Len(ids) = 3
  /\ WithMessage(heap, ids) = {}
  /\ ChainTerminal(heap, call.err) # NilV
  /\ call.ret = FallbackMessage
  /\ call.ret # ForeignText(ChainTerminal(heap, call.err).id)

(***************************************************************************)
(* SpecFields: chains whose nodes differ in their field maps, queried by   *)
(* Fields.                                                                 *)
(***************************************************************************)
\* the key/value lists that make the maps over two keys and two values
PairLists ==
  {<<>>} \cup {<<StrV(k), StrV(v)>> : k \in {sBaz, sFoo}, v \in {sBar, sQux}}
    \cup {<<StrV(sFoo), StrV(v), StrV(sBaz), StrV(w)>> :
            v \in {sBar, sQux}, w \in {sBar, sQux}}

FieldsLevels ==
  [kind : {kTest}, msg : {sOops}, has : {FALSE}, kvs : {<<>>}, site : {SiteA}]
    \cup [kind : {kTest}, msg : {sOops}, has : {TRUE}, kvs : PairLists,
          site : {SiteA}]

InitFields == InitChain(FieldsLevels, MaxDepth, {NilV, ForeignV(1)})

NextFields ==
  /\ call.op = "none"
  /\ \E err \in Errs(heap) : CallFields(err)

SpecFields == InitFields /\ [][NextFields]_vars

\* the positions of the chain whose node has a field map
WithMap(h, ids) == {i \in DOMAIN ids : h[ids[i]].Fields # 0}

\* the positions of the chain whose node's own map has the key k
WithKey(h, m, ids, k) ==
  {i \in WithMap(h, ids) : k \in DOMAIN m[h[ids[i]].Fields]}

(***************************************************************************)
(* C3: for a non-null chain, the keys of Fields(err) are the union of the  *)
(* keys of the nodes' own maps, each key has the value held by the node    *)
(* closest to the head that has the key, and the result is nil when no     *)
(* node has a field map.                                                   *)
(***************************************************************************)
C3_FieldsHeadWins ==
  (call.op = "Fields" /\ NonNull(call.err))
    => LET ids == ChainIds(heap, call.err)
           r == call.ret
       IN /\ ~call.panicked
          /\ r.isnil <=> (WithMap(heap, ids) = {})
          /\ DOMAIN r.val =
               UNION {DOMAIN maps[heap[ids[i]].Fields] : i \in WithMap(heap, ids)}
          /\ \A k \in DOMAIN r.val :
               r.val[k] = maps[heap[ids[Min(WithKey(heap, maps, ids, k))]].Fields][k]

\* a key held with different values by the second and the third node of a
\* chain and not by its head, and another key held by the head
C3_Witness ==
  LET ids == ChainIds(heap, call.err) IN
  /\ call.op = "Fields"
  /\ Len(ids) = 3
  /\ WithKey(heap, maps, ids, sFoo) = {2, 3}
  /\ maps[heap[ids[2]].Fields][sFoo] # maps[heap[ids[3]].Fields][sFoo]
  /\ WithKey(heap, maps, ids, sBaz) = {1}
  /\ call.ret.val[sFoo] = maps[heap[ids[2]].Fields][sFoo]

(***************************************************************************)
(* SpecSlice: chains whose nodes hold maps over three keys, one a prefix   *)
(* of another, queried by FieldsSlice under every order of the range over  *)
(* the merged map.                                                         *)
(***************************************************************************)
\* the list k1, v, k2, v, ... for the keys in the order o
PairsOf(o, v) ==
  [i \in 1..(2 * Len(o)) |-> IF i % 2 = 1 THEN StrV(o[(i + 1) \div 2]) ELSE StrV(v)]

SlicePairLists ==
  {PairsOf(CHOOSE o \in KeyOrders(K) : TRUE, v) :
     K \in SUBSET {sBaz, sFo, sFoo}, v \in {sBar, sQux}}

SliceLevels ==
  [kind : {kTest}, msg : {sOops}, has : {FALSE}, kvs : {<<>>}, site : {SiteA}]
    \cup [kind : {kTest}, msg : {sOops}, has : {TRUE}, kvs : SlicePairLists,
          site : {SiteA}]

InitSlice == InitChain(SliceLevels, MaxWideDepth, {NilV, ForeignV(1)})

NextSlice ==
  /\ call.op = "none"
  /\ \E err \in Errs(heap) : CallFieldsSlice(err)

SpecSlice == InitSlice /\ [][NextSlice]_vars

\* a is before b in the byte-wise lexicographic order
LexLess(a, b) ==
  \E i \in 1..Len(b) :
    /\ i <= Len(a) + 1
    /\ \A j \in 1..(i - 1) : a[j] = b[j]
    /\ (i = Len(a) + 1 \/ a[i] < b[i])

(***************************************************************************)
(* C4: for every chain, FieldsSlice(err) alternates keys and values, has   *)
(* twice as many elements as Fields(err) has keys, its keys are strictly   *)
(* ascending in lexicographic order and each key is followed by the value  *)
(* Fields(err) has for it, whatever the order the fields were visited in   *)
(* and whatever level of the chain they sit on.                            *)
(***************************************************************************)
C4_FieldsSliceSorted ==
  (call.op = "FieldsSlice" /\ call.err # PtrV(0))
    => LET f == Fields(heap, maps, call.err).val
           sl == call.ret.seq
       IN /\ ~call.panicked
          /\ Len(sl) = 2 * Cardinality(DOMAIN f)
          /\ \A i \in 1..Cardinality(DOMAIN f) :
               /\ sl[2 * i - 1].t = "string"
               /\ sl[2 * i - 1].s \in DOMAIN f
               /\ sl[2 * i] = f[sl[2 * i - 1].s]
               /\ i > 1 => LexLess(sl[2 * i - 3].s, sl[2 * i - 1].s)

\* three keys from two levels of a chain, visited in descending order,
\* come out ascending
C4_Witness ==
  LET ids == ChainIds(heap, call.err) IN
  /\ call.op = "FieldsSlice"
  /\ Len(ids) = 2
  /\ call.order = <<sFoo, sFo, sBaz>>
  /\ WithKey(heap, maps, ids, sBaz) = {2}
  /\ WithKey(heap, maps, ids, sFoo) = {1}
  /\ Len(call.ret.seq) = 6
  /\ call.ret.seq[1] = StrV(sBaz) /\ call.ret.seq[3] = StrV(sFo)
  /\ call.ret.seq[5] = StrV(sFoo)

(***************************************************************************)
(* SpecTraverse: chains whose nodes differ in kind, message, call site and *)
(* fields at once, handed to every function of utils.go.                   *)
(***************************************************************************)
WideLevels ==
  [kind : {<<>>, kTest}, msg : {<<>>, sOops}, has : {FALSE}, kvs : {<<>>},
   site : Sites]
    \cup [kind : {<<>>, kTest}, msg : {<<>>, sOops}, has : {TRUE},
          kvs : {<<StrV(sFoo), StrV(sBar)>>}, site : Sites]

\* nil, a nil *Error, a foreign error and the head of the drawn chain
HeadErrs(h) ==
  {NilV, PtrV(0), ForeignV(1)} \cup (IF Len(h) > 0 THEN {PtrV(Len(h))} ELSE {})

InitTraverse == InitChain(WideLevels, MaxWideDepth, {NilV, ForeignV(1)})

NextTraverse ==
  /\ call.op = "none"
  /\ \E err \in HeadErrs(heap) :
       \/ \E kind \in SeqsUpTo({KindV(kTest)}, MaxTags) : CallIs(err, kind)
       \/ CallMessage(err)
       \/ CallFields(err)
       \/ CallFieldsSlice(err)
       \/ CallStack(err)
       \/ \E site \in Sites : CallFatal(err, site)

SpecTraverse == InitTraverse /\ [][NextTraverse]_vars

(***************************************************************************)
(* C5: for a non-null chain, Stack(err) has one frame per *Error in head   *)
(* to root order, frame i with node i's own kind, stored message, call     *)
(* site and own field map, and one more frame when the chain ends in a     *)
(* foreign error, with that error's text and nothing else.                 *)
(***************************************************************************)
C5_StackFramePerNode ==
  (call.op = "Stack" /\ NonNull(call.err))
    => LET ids == ChainIds(heap, call.err)
           term == ChainTerminal(heap, call.err)
           st == call.ret.seq
       IN /\ ~call.panicked
          /\ ~call.ret.isnil
          /\ Len(st) = Len(ids) + (IF term # NilV THEN 1 ELSE 0)
          /\ \A i \in DOMAIN ids :
               /\ st[i].Kind = heap[ids[i]].Kind
               /\ st[i].Message = heap[ids[i]].Message
               /\ st[i].Caller = heap[ids[i]].caller
               /\ st[i].File = heap[ids[i]].file
               /\ st[i].Line = heap[ids[i]].line
               /\ st[i].Fields = heap[ids[i]].Fields
          /\ term # NilV =>
               st[Len(st)] = [Kind |-> <<>>, Message |-> ForeignText(term.id),
                              Fields |-> 0, Caller |-> <<>>, File |-> <<>>,
                              Line |-> 0]

\* a chain of two nodes on a foreign error: three frames, the head's with
\* an empty message and its own fields, the second with another call site
C5_Witness ==
  LET ids == ChainIds(heap, call.err) IN
  /\ call.op = "Stack"
  /\ Len(ids) = 2
  /\ ChainTerminal(heap, call.err) # NilV
  /\ Len(call.ret.seq) = 3
  /\ heap[ids[1]].Message = <<>> /\ heap[ids[2]].Message # <<>>
  /\ heap[ids[1]].Fields # 0 /\ heap[ids[2]].Fields = 0
  /\ heap[ids[1]].caller # heap[ids[2]].caller
  /\ call.ret.seq[1].Message = <<>>
  /\ call.ret.seq[3].Message = sEOF

(***************************************************************************)
(* C6: given a nil error, Is returns false for any list of kinds, Message  *)
(* returns the empty string, Fields and FieldsSlice return nil, Stack      *)
(* returns an empty sequence that is not nil, and Fatal returns.           *)
(***************************************************************************)
C6_NilErrorNeutral ==
  (call.op \in {"Is", "Message", "Fields", "FieldsSlice", "Stack", "Fatal"}
     /\ call.err = NilV)
    => /\ ~call.panicked
       /\ call.op = "Is" => call.ret = FALSE
       /\ call.op = "Message" => call.ret = <<>>
       /\ call.op = "Fields" => call.ret.isnil
       /\ call.op = "FieldsSlice" => call.ret.isnil
       /\ call.op = "Stack" => (~call.ret.isnil /\ call.ret.seq = <<>>)

\* Message was handed nil while a chain with messages exists
C6_Witness ==
  /\ call.op = "Message" /\ call.err = NilV
  /\ call.ret = <<>>
  /\ Len(heap) > 0 /\ heap[Len(heap)].Message # <<>>

(***************************************************************************)
(* SpecNew: one call of New or Wrap, with every argument list up to        *)
(* MaxArgs, on a heap that holds up to MaxPrior nodes built before and a   *)
(* map made by the caller.                                                 *)
(***************************************************************************)
\* how many nodes exist before the constructor is called
MaxPrior == 1

\* a map literal of the caller
CallerMap == [k \in {sBaz} |-> StrV(sQux)]

NewLevels ==
  [kind : {kIO}, msg : {sInner}, has : {FALSE}, kvs : {<<>>}, site : {SiteA}]
    \cup [kind : {kIO}, msg : {sInner}, has : {TRUE},
          kvs : {<<StrV(sFoo), StrV(sBar)>>}, site : {SiteA}]

\* the values handed to the constructors: one of each accepted type, the
\* last node allocated, a nil *Error and a value of a type not accepted
ArgVals(h, m) ==
  {KindV(kTest), StrV(sOops), ForeignV(1), PtrV(0), IntV(123), MapV(Len(m))}
    \cup (IF Len(h) > 0 THEN {PtrV(Len(h))} ELSE {})

Causes(h) ==
  {NilV, PtrV(0), ForeignV(2)} \cup (IF Len(h) > 0 THEN {PtrV(Len(h))} ELSE {})

InitNew ==
  \E levels \in SeqsUpTo(NewLevels, MaxPrior) :
    LET st == BuildChain(levels, NilV) IN
    /\ heap = st.heap
    /\ maps = Append(st.maps, CallerMap)
    /\ call = NoCall

\* a constructor call adds to the heap; one call is made on each drawn heap
NextNew ==
  /\ call.op = "none"
  /\ \E site \in Sites :
       \/ \E args \in SeqsUpTo(ArgVals(heap, maps), MaxArgs) : CallNew(args, site)
       \/ \E cause \in Causes(heap),
             args \in SeqsUpTo(ArgVals(heap, maps), MaxArgs - 1) :
            CallWrap(cause, args, site)

SpecNew == InitNew /\ [][NextNew]_vars

Max(S) == CHOOSE x \in S : \A y \in S : x >= y

\* an argument newError rejects
BadArg(v) ==
  v.t \notin {"Kind", "string", "*Error", "error", "map"} \/ v = PtrV(0)

HasBad(args) == \E i \in DOMAIN args : BadArg(args[i])

\* the last argument of one of the types T, NilV when there is none
LastOf(args, T) ==
  LET P == {i \in DOMAIN args : args[i].t \in T} IN
  IF P = {} THEN NilV ELSE args[Max(P)]

\* the stored cause is c handed in: c itself for a foreign error, a copy
\* in another node for an *Error
CauseIs(h, stored, c) ==
  IF c = NilV THEN stored = NilV
  ELSE IF c.t = "error" THEN stored = c
  ELSE /\ stored.t = "*Error"
       /\ stored.id \notin {0, c.id}
       /\ h[stored.id] = h[c.id]

\* the node at id is what the argument list describes
NodeMatches(h, id, args, site) ==
  LET k == LastOf(args, {"Kind"})
      s == LastOf(args, {"string"})
      mp == LastOf(args, {"map"})
      c == LastOf(args, {"*Error", "error"})
  IN /\ h[id].Kind = (IF k = NilV THEN <<>> ELSE k.s)
     /\ h[id].Message = (IF s = NilV THEN <<>> ELSE s.s)
     /\ h[id].Fields = (IF mp = NilV THEN 0 ELSE mp.id)
     /\ CauseIs(h, h[id].Cause, c)
     /\ h[id].caller = site.caller /\ h[id].file = site.file
     /\ h[id].line = site.line

\* the nodes h1[p1] and h2[p2] agree in every field, the cause compared by
\* the node it points to
SameNode(h1, p1, h2, p2) ==
  LET a == h1[p1]
      b == h2[p2]
  IN /\ [a EXCEPT !.Cause = NilV] = [b EXCEPT !.Cause = NilV]
     /\ a.Cause.t = b.Cause.t
     /\ IF a.Cause.t = "*Error" THEN h1[a.Cause.id] = h2[b.Cause.id]
        ELSE a.Cause = b.Cause

(***************************************************************************)
(* C7: Wrap(cause, args...) returns nil without panicking when cause is    *)
(* nil, whatever args holds; with a non-nil cause it does what             *)
(* New(args..., cause) does, so the cause given is the node's cause even   *)
(* when args holds another error.                                          *)
(***************************************************************************)
C7_WrapIsNewWithCauseLast ==
  call.op = "Wrap"
    => IF call.err = NilV
       THEN ~call.panicked /\ call.ret = PtrV(0)
       ELSE LET all == Append(call.args, call.err)
                n == New(heap, all, call.site)
            IN /\ call.panicked = n.panicked
               /\ call.panicked = HasBad(all)
               /\ ~call.panicked =>
                    /\ call.ret.id # 0
                    /\ NodeMatches(heap, call.ret.id, all, call.site)
                    /\ CauseIs(heap, heap[call.ret.id].Cause, call.err)
                    /\ SameNode(n.heap, n.ret, heap, call.ret.id)

\* Wrap of a node with a foreign error among the arguments: the node is
\* the cause
C7_Witness ==
  /\ call.op = "Wrap" /\ ~call.panicked
  /\ call.err.t = "*Error" /\ call.err.id # 0
  /\ \E i \in DOMAIN call.args : call.args[i] = ForeignV(1)
  /\ heap[call.ret.id].Cause.t = "*Error"
  /\ heap[heap[call.ret.id].Cause.id] = heap[call.err.id]

(***************************************************************************)
(* C8 as stated: New panics on zero arguments; New and Wrap panic when an  *)
(* argument has a type other than Kind, string, *Error, error or map, or   *)
(* is a nil *Error; in every other case New returns a node.                *)
(***************************************************************************)
C8_Original ==
  /\ (call.op = "New" /\ Len(call.args) = 0) => call.panicked
  /\ (call.op \in {"New", "Wrap"} /\ HasBad(call.args)) => call.panicked
  /\ (call.op = "New" /\ Len(call.args) > 0 /\ ~HasBad(call.args))
       => (~call.panicked /\ call.ret.id # 0)

(***************************************************************************)
(* C8 amended: New panics on zero arguments; New, and Wrap when its cause  *)
(* is not nil, panic when an argument has a type other than Kind, string,  *)
(* *Error, error or map, or is a nil *Error; in every other case New       *)
(* returns a node.                                                         *)
(***************************************************************************)
C8_FatalOnBadArguments ==
  /\ (call.op = "New" /\ Len(call.args) = 0) => call.panicked
  /\ ((call.op = "New" \/ (call.op = "Wrap" /\ call.err # NilV))
        /\ HasBad(call.args)) => call.panicked
  /\ (call.op = "New" /\ Len(call.args) > 0 /\ ~HasBad(call.args))
       => (~call.panicked /\ call.ret.id # 0)

\* Wrap of a node panicked on an argument of a type not accepted that
\* follows accepted ones
C8_Witness ==
  /\ call.op = "Wrap" /\ call.panicked
  /\ call.err.t = "*Error" /\ call.err.id # 0
  /\ Len(call.args) = 3
  /\ ~BadArg(call.args[1]) /\ ~BadArg(call.args[2])
  /\ call.args[3] = IntV(123)

\* at most one argument of each of the four types
OnePerType(args) ==
  \A T \in {{"Kind"}, {"string"}, {"*Error", "error"}, {"map"}} :
    Cardinality({i \in DOMAIN args : args[i].t \in T}) <= 1

\* the argument lists that are args in another order
PermsOf(args) ==
  {[i \in DOMAIN args |-> args[p[i]]] : p \in KeyOrders(DOMAIN args)}

(***************************************************************************)
(* C9: New sets kind from the Kind argument, message from the string, the  *)
(* cause from the error and fields from the map, whatever their positions: *)
(* every permutation of a list with at most one argument of each of the    *)
(* four types gives a node with the same kind, message, cause and fields,  *)
(* and a field no argument was given for stays empty.                      *)
(***************************************************************************)
C9_NewOrderIndependent ==
  (call.op = "New" /\ Len(call.args) > 0 /\ OnePerType(call.args)
     /\ ~HasBad(call.args))
    => /\ ~call.panicked
       /\ NodeMatches(heap, call.ret.id, call.args, call.site)
       /\ \A q \in PermsOf(call.args) :
            LET n == New(heap, q, call.site) IN
            ~n.panicked /\ SameNode(n.heap, n.ret, heap, call.ret.id)

\* the four types at once, the message first and the kind last, the cause
\* a node
C9_Witness ==
  /\ call.op = "New" /\ ~call.panicked
  /\ Len(call.args) = 4 /\ OnePerType(call.args)
  /\ call.args[1].t = "string" /\ call.args[4].t = "Kind"
  /\ \E i \in 2..3 : call.args[i].t = "*Error"
  /\ heap[call.ret.id].Kind = kTest
  /\ heap[call.ret.id].Message = sOops
  /\ heap[call.ret.id].Fields # 0

(***************************************************************************)
(* SpecWith: one call of WithField or WithFields on a node of a chain      *)
(* whose nodes hold nothing, an empty map or keys attached before.         *)
(***************************************************************************)
WithLevels ==
  [kind : {kTest}, msg : {sOops}, has : {FALSE}, kvs : {<<>>}, site : {SiteA}]
    \cup [kind : {kTest}, msg : {sOops}, has : {TRUE},
          kvs : {<<>>, <<StrV(sFoo), StrV(sQux)>>, <<StrV(sBaz), StrV(sBar)>>,
                 <<StrV(sFoo), StrV(sQux), StrV(sBaz), StrV(sBar)>>},
          site : {SiteA}]

\* the values handed to WithFields, as keys and as values
KvVals == {StrV(sFoo), StrV(sBaz), StrV(sBar), IntV(1234)}

InitWith == InitChain(WithLevels, MaxWideDepth, {NilV})

NextWith ==
  /\ call.op = "none"
  /\ \E e \in 0..Len(heap) :
       \/ \E k \in {sFoo, sBaz}, v \in {StrV(sBar), IntV(1234)} :
            CallWithField(e, k, v)
       \/ \E kvs \in SeqsUpTo(KvVals, MaxKvs) : CallWithFields(e, kvs)

SpecWith == InitWith /\ [][NextWith]_vars

KeyPositions(kvs) == {i \in DOMAIN kvs : i % 2 = 1}

\* an even number of elements, a string at every key position
WellFormed(kvs) ==
  Len(kvs) % 2 = 0 /\ \A i \in KeyPositions(kvs) : kvs[i].t = "string"

NamedKeys(kvs) == {kvs[i].s : i \in KeyPositions(kvs)}

\* the value of the last pair of kvs that has the key k
LastValue(kvs, k) == kvs[Max({i \in KeyPositions(kvs) : kvs[i].s = k}) + 1]

\* the step of a call of WithField or WithFields
C10_Step ==
  call'.op \in {"WithField", "WithFields"}
    => LET e == call'.recv
           kvs == call'.args
       IN /\ (call'.op = "WithFields" /\ ~WellFormed(kvs)) => call'.panicked
          /\ (e # 0 /\ WellFormed(kvs)) =>
               LET f == heap'[e].Fields
                   old == IF heap[e].Fields = 0 THEN EmptyMap
                          ELSE maps[heap[e].Fields]
               IN /\ ~call'.panicked
                  /\ call'.ret = PtrV(e)
                  /\ f # 0
                  /\ DOMAIN maps'[f] = (DOMAIN old) \cup NamedKeys(kvs)
                  /\ \A k \in NamedKeys(kvs) : maps'[f][k] = LastValue(kvs, k)
                  /\ \A k \in (DOMAIN old) \ NamedKeys(kvs) : maps'[f][k] = old[k]

(***************************************************************************)
(* C10: WithField and WithFields return the node they were called on, and  *)
(* its own map then holds each given key with its given value, a later     *)
(* pair for a key overwriting an earlier one, while every key attached     *)
(* before and not named keeps its value; WithFields panics on a list of    *)
(* odd length or with a non-string at a key position.                      *)
(***************************************************************************)
C10_WithFieldsAttach == [][C10_Step]_vars

\* WithFields gave one key twice with different values on a node that
\* held another key: the later value is held and the other key is kept
C10_Witness ==
  /\ call.op = "WithFields" /\ ~call.panicked
  /\ Len(call.args) = 4
  /\ call.args[1] = StrV(sFoo) /\ call.args[3] = StrV(sFoo)
  /\ call.args[2] # call.args[4]
  /\ call.ret = PtrV(call.recv)
  /\ maps[heap[call.recv].Fields][sFoo] = call.args[4]
  /\ sBaz \in DOMAIN maps[heap[call.recv].Fields]

(***************************************************************************)
(* SpecAlias: a node of a drawn chain is wrapped by Wrap or New, and then  *)
(* the node that was wrapped is changed: fields are attached to it, or its *)
(* kind, message or cause is assigned.                                     *)
(***************************************************************************)
AliasLevels ==
  [kind : {kTest}, msg : {sOops}, has : {FALSE}, kvs : {<<>>}, site : {SiteA}]
    \cup [kind : {kTest}, msg : {sOops}, has : {TRUE},
          kvs : {<<>>, <<StrV(sFoo), StrV(sQux)>>}, site : {SiteA}]

AliasKvVals == {StrV(sFoo), StrV(sBar), IntV(1234)}

InitAlias == InitChain(AliasLevels, MaxWideDepth, {NilV, ForeignV(1)})

\* the error a call of Wrap or New was given to wrap, NilV when none
WrappedOf(c) ==
  IF c.op = "Wrap" THEN c.err
  ELSE IF c.op = "New" THEN LastOf(c.args, {"*Error", "error"})
  ELSE NilV

NextAlias ==
  \/ /\ call.op = "none"
     /\ \E e \in 1..Len(heap) :
          \/ \E args \in {<<>>, <<StrV(sInner)>>, <<KindV(kIO), StrV(sInner)>>} :
               CallWrap(PtrV(e), args, NoSite)
          \/ \E args \in {<<PtrV(e)>>, <<PtrV(e), StrV(sInner)>>} :
               CallNew(args, SiteA)
  \/ /\ call.op \in {"New", "Wrap"}
     /\ ~call.panicked
     /\ LET e == WrappedOf(call).id IN
          \/ \E k \in {sFoo, sBaz}, v \in {StrV(sBar), IntV(1234)} :
               CallWithField(e, k, v)
          \/ \E kvs \in SeqsUpTo(AliasKvVals, MaxKvs) : CallWithFields(e, kvs)
          \/ \E k \in {<<>>, kIO} : AssignKind(e, k)
          \/ \E s \in {<<>>, sInner} : AssignMessage(e, s)
          \/ \E c \in {NilV, ForeignV(2)} : AssignCause(e, c)

SpecAlias == InitAlias /\ [][NextAlias]_vars

\* the frames of Stack(w) with the contents of each frame's field map
FramesWithFields(h, m, w) ==
  LET st == Stack(h, PtrV(w)).seq IN
  [i \in DOMAIN st |->
     [frame |-> st[i],
      fields |-> IF st[i].Fields = 0 THEN EmptyMap ELSE m[st[i].Fields]]]

\* what is seen of the chain of w through Stack, Fields, Message and Error
ChainView(h, m, w) ==
  [stack |-> FramesWithFields(h, m, w),
   fields |-> Fields(h, m, PtrV(w)).val,
   fieldsnil |-> Fields(h, m, PtrV(w)).isnil,
   message |-> Message(h, PtrV(w)).ret,
   error |-> format(h, m, w, FALSE)]

\* the keys the call wrote before it returned or panicked
WrittenKeys(c) ==
  IF c.op = "WithField" THEN {c.args[1].s}
  ELSE IF c.op = "WithFields" /\ Len(c.args) % 2 = 0
  THEN {c.args[i].s : i \in {j \in KeyPositions(c.args) :
                               \A l \in KeyPositions(c.args) :
                                 l <= j => c.args[l].t = "string"}}
  ELSE {}

\* the steps of SpecAlias: the wrap, and the change of the wrapped node
C11_Step ==
  /\ (call.op = "none" /\ call'.op \in {"New", "Wrap"})
       => LET e == WrappedOf(call').id
              w == call'.ret.id
          IN /\ ~call'.panicked /\ w # 0
             /\ maps' = maps
             /\ \A i \in 1..Len(heap) : heap'[i] = heap[i]
             /\ heap'[w].Cause.t = "*Error"
             /\ heap'[w].Cause.id \notin {0, e}
             /\ heap'[heap'[w].Cause.id] = heap[e]
  /\ (call.op \in {"New", "Wrap"} /\ call'.op \notin {"New", "Wrap"})
       => LET e == WrappedOf(call).id
              w == call.ret.id
              d == heap[w].Cause.id
              f == heap[e].Fields
          IN /\ call'.recv = e
             /\ heap'[w] = heap[w] /\ heap'[d] = heap[d]
             /\ IF f = 0 \/ call'.op \notin {"WithField", "WithFields"}
                THEN ChainView(heap', maps', w) = ChainView(heap, maps, w)
                ELSE /\ heap'[d].Fields = f
                     /\ ChainView(heap', [maps' EXCEPT ![f] = maps[f]], w)
                          = ChainView(heap, maps, w)
                     /\ \A k \in WrittenKeys(call') :
                          /\ k \in DOMAIN maps'[f]
                          /\ k \in DOMAIN FramesWithFields(heap', maps', w)[2].fields
                          /\ ~call'.panicked =>
                               FramesWithFields(heap', maps', w)[2].fields[k]
                                 = LastValue(call'.args, k)

(***************************************************************************)
(* C11: Wrap(e, ...) or New(e, ...) of an *Error e leaves e as it was and  *)
(* takes a duplicate of e as the cause; a later assignment to e's Kind,    *)
(* Message or Cause, and fields attached to e when it had no map at the    *)
(* wrap, leave Stack, Fields, Message and Error() of the wrapper as they   *)
(* were; when e had a map at the wrap the duplicate holds the same map, so *)
(* the keys written to e afterwards show in the wrapper's chain and        *)
(* nothing else of it changes.                                             *)
(***************************************************************************)
C11_WrapDuplicates == [][C11_Step]_vars

\* a key was attached to the wrapped node, which held a map at the wrap:
\* the duplicate under the wrapper has the key, the merged fields of the
\* wrapper changed
C11_Witness ==
  /\ call.op = "WithField" /\ ~call.panicked
  /\ \E w \in 1..Len(heap) :
       /\ heap[w].Cause.t = "*Error"
       /\ heap[w].Cause.id # call.recv
       /\ heap[heap[w].Cause.id].Fields = heap[call.recv].Fields
       /\ heap[heap[w].Cause.id].Kind = heap[call.recv].Kind
       /\ call.args[1].s \in DOMAIN Fields(heap, maps, PtrV(w)).val
       /\ Fields(heap, maps, PtrV(w)).val[call.args[1].s] = call.args[2]
       /\ call.args[1].s = sBaz

(***************************************************************************)
(* SpecFormat: chains whose nodes differ in kind, message and call site,   *)
(* with and without fields and a foreign terminal, rendered by Error and   *)
(* Format and handed to Fatal.                                             *)
(***************************************************************************)
FormatLevels ==
  [kind : {<<>>, kTest}, msg : {<<>>, sOops, sInner}, has : {FALSE},
   kvs : {<<>>}, site : Sites]
    \cup [kind : {kTest}, msg : {sOops}, has : {TRUE},
          kvs : {<<StrV(sFoo), StrV(sBar), StrV(sBaz), IntV(12)>>}, site : {SiteA}]

InitFormat == InitChain(FormatLevels, MaxWideDepth, {NilV, ForeignV(1), ForeignV(2)})

NextFormat ==
  /\ call.op = "none"
  /\ \/ \E e \in {0} \cup (IF Len(heap) > 0 THEN {Len(heap)} ELSE {}) :
          \/ CallError(e)
          \/ \E c \in {<<118>>, <<115>>}, plus \in BOOLEAN : CallFormat(e, c, plus)
     \/ \E err \in HeadErrs(heap) \cup {ForeignV(2)}, site \in Sites :
          CallFatal(err, site)

SpecFormat == InitFormat /\ [][NextFormat]_vars

\* sub occurs in s
Contains(s, sub) ==
  \E i \in 0..(Len(s) - Len(sub)) : SubSeq(s, i + 1, i + Len(sub)) = sub

HasPrefix(s, pre) == Len(pre) <= Len(s) /\ SubSeq(s, 1, Len(pre)) = pre

HasSuffix(s, suf) ==
  Len(suf) <= Len(s) /\ SubSeq(s, Len(s) - Len(suf) + 1, Len(s)) = suf

\* the verbose rendering of the chain of err below a frame that wraps it
VerboseAsCause(h, m, err) ==
  IF err.t = "*Error" THEN formatAccumulator(h, m, err.id, lCausedBy, TRUE, TRUE)
  ELSE lCausedBy \o lColon \o ForeignText(err.id)

NodeTokens(e) ==
  (IF e.caller # <<>>
   THEN <<[sep |-> lColon, text |-> lOpenB \o e.caller \o lCloseB]>> ELSE <<>>)
    \o (IF e.Message # <<>> THEN <<[sep |-> lColon, text |-> e.Message]>> ELSE <<>>)
    \o (IF e.Kind # <<>>
        THEN <<[sep |-> lSpace, text |-> lOpenP \o e.Kind \o lCloseP]>> ELSE <<>>)

\* the parts of the whole chain, head first, the foreign text last
RECURSIVE ChainTokens(_, _)
ChainTokens(h, err) ==
  IF err = NilV THEN <<>>
  ELSE IF err.t = "error" THEN <<[sep |-> lColon, text |-> ForeignText(err.id)]>>
  ELSE NodeTokens(h[err.id]) \o ChainTokens(h, h[err.id].Cause)

\* the parts written one after the other, every part but the first behind
\* its separator
RECURSIVE Join(_)
Join(tokens) ==
  IF tokens = <<>> THEN <<>>
  ELSE IF Len(tokens) = 1 THEN tokens[1].text
  ELSE Join(SubSeq(tokens, 1, Len(tokens) - 1))
         \o tokens[Len(tokens)].sep \o tokens[Len(tokens)].text

\* the call printed the chain on one line
CompactCall(c) ==
  /\ c.op \in {"Error", "Format"}
  /\ c.recv # 0
  /\ c.op = "Format" => ~(c.args[1].s = <<118>> /\ c.args[2].s = <<43>>)

(***************************************************************************)
(* C13: Error() and Format without "%+v" print, head first, the caller in  *)
(* brackets, the message and the kind in parentheses of every *Error and   *)
(* then the text of the foreign error, leaving out what is empty and       *)
(* putting ": " (" " for a kind) before a part only when a part precedes   *)
(* it: the output does not begin with a separator, holds no "[]" and no    *)
(* "()", and no separator follows another.                                 *)
(***************************************************************************)
C13_ErrorRendering ==
  CompactCall(call)
    => LET out == call.ret IN
       /\ ~call.panicked
       /\ out = Join(ChainTokens(heap, PtrV(call.recv)))
       /\ ~HasPrefix(out, lColon) /\ ~HasPrefix(out, lSpace)
       /\ ~Contains(out, lOpenB \o lCloseB)
       /\ ~Contains(out, lOpenP \o lCloseP)
       /\ \A a \in {lColon, lSpace}, b \in {lColon, lSpace} : ~Contains(out, a \o b)

\* a head with a kind and nothing else over a node with caller and message
\* and no kind, over a foreign error
C13_Witness ==
  LET ids == ChainIds(heap, PtrV(call.recv)) IN
  /\ call.op = "Error" /\ call.recv # 0
  /\ Len(ids) = 2
  /\ heap[ids[1]].caller = <<>> /\ heap[ids[1]].Message = <<>>
  /\ heap[ids[2]].Kind = <<>>
  /\ call.ret = lOpenP \o kTest \o lCloseP \o lColon \o lOpenB \o sCaller
                  \o lCloseB \o lColon \o sOops \o lColon \o sEOF

(***************************************************************************)
(* C14: Is given one plain string s, not empty, on a chain that has an     *)
(* *Error whose kind has the text s, returns true, as Is given Kind(s)     *)
(* does.                                                                   *)
(***************************************************************************)
C14_PlainStringAsKind ==
  (call.op = "Is" /\ NonNull(call.err) /\ Len(call.args) = 1
     /\ call.args[1].t = "string" /\ call.args[1].s # <<>>
     /\ \E n \in Range(ChainIds(heap, call.err)) : heap[n].Kind = call.args[1].s)
    => /\ ~call.panicked
       /\ call.ret = TRUE
       /\ call.ret = Is(heap, call.err, <<KindV(call.args[1].s)>>).ret

(***************************************************************************)
(* C15: on a chain whose *Error nodes all have an empty kind, Is returns   *)
(* false for every list of Kind tags, the empty tag included.              *)
(***************************************************************************)
C15_EmptyKindNeverMatches ==
  (call.op = "Is" /\ NonNull(call.err) /\ AllKinds(call.args)
     /\ \A n \in Range(ChainIds(heap, call.err)) : heap[n].Kind = <<>>)
    => (~call.panicked /\ call.ret = FALSE)

(***************************************************************************)
(* SpecNilWrap: Wrap is called with a nil cause, and what it returned is   *)
(* handed as an error to the functions of utils.go.                        *)
(***************************************************************************)
InitNilWrap == InitChain(IsLevels, MaxDepth, {NilV, ForeignV(1)})

NextNilWrap ==
  \/ /\ call.op = "none"
     /\ \E args \in SeqsUpTo({KindV(kTest), StrV(sOops), IntV(123)}, 2),
           site \in Sites :
          CallWrap(NilV, args, site)
  \/ /\ call.op = "Wrap"
     /\ LET err == call.ret IN
          \/ \E kind \in SeqsUpTo({KindV(kTest), KindV(<<>>)}, MaxTags) :
               CallIs(err, kind)
          \/ CallMessage(err)
          \/ CallFields(err)
          \/ CallFieldsSlice(err)
          \/ CallStack(err)
          \/ \E site \in Sites : CallFatal(err, site)

SpecNilWrap == InitNilWrap /\ [][NextNilWrap]_vars

\* the value Wrap returns for a nil cause: a nil *Error
WrapNilResult == PtrV(Wrap(<<>>, NilV, <<>>, NoSite).ret)

(***************************************************************************)
(* C16: what Wrap(nil, ...) returns, handed on as an error, is treated as  *)
(* a nil error: Is returns false, Message the empty string, Fields and     *)
(* FieldsSlice nil, Stack an empty sequence, Fatal returns, and none of    *)
(* them panics.  In SpecNilWrap every error handed to these functions is   *)
(* the value returned by the call of Wrap(nil, ...) made just before.      *)
(***************************************************************************)
C16_NilWrapNeutral ==
  (call.op \in {"Is", "Message", "Fields", "FieldsSlice", "Stack", "Fatal"}
     /\ call.err = WrapNilResult)
    => /\ ~call.panicked
       /\ call.op = "Is" => call.ret = FALSE
       /\ call.op = "Message" => call.ret = <<>>
       /\ call.op = "Fields" => call.ret.isnil
       /\ call.op = "FieldsSlice" => call.ret.isnil
       /\ call.op = "Stack" => call.ret.seq = <<>>

(***************************************************************************)
(* C17: Fatal given a foreign error panics with that error itself, not     *)
(* with a formatted string; only an *Error gets the formatted payload.     *)
(***************************************************************************)
C17_ForeignPassedAsIs ==
  (call.op = "Fatal" /\ call.err.t = "error")
    => /\ call.panicked
       /\ call.ret.ptype = "error"
       /\ ~HasPrefix(call.ret.payload, lFatal)

(***************************************************************************)
(* SpecBuild: any sequence of calls of New, Wrap, WithField, WithFields    *)
(* and Fatal, from an empty heap, on the nodes built so far and a foreign  *)
(* error, until MaxNodes nodes are allocated.                              *)
(***************************************************************************)
\* no constructor is called once the heap holds more nodes than this
MaxNodes == 3
\* no field is attached to a node without a map once this many maps exist
MaxMaps == 1

InitBuild ==
  /\ heap = <<>>
  /\ maps = <<>>
  /\ call = NoCall

\* the receivers fields may be attached to: the nil pointer, the nodes
\* that hold a map, and every node while a map may still be allocated
Receivers ==
  {e \in 0..Len(heap) : e = 0 \/ Len(maps) < MaxMaps \/ heap[e].Fields # 0}

NextBuild ==
  \/ /\ Len(heap) <= MaxNodes
     /\ \E args \in {<<>>, <<StrV(sOops)>>, <<KindV(kTest), ForeignV(1)>>}
                     \cup {<<PtrV(i)>> : i \in 0..Len(heap)} :
          CallNew(args, SiteA)
  \/ /\ Len(heap) <= MaxNodes
     /\ \E cause \in Errs(heap),
           args \in {<<>>} \cup {<<PtrV(i)>> : i \in {Len(heap)} \ {0}} :
          CallWrap(cause, args, NoSite)
  \/ \E e \in Receivers : CallWithField(e, sFoo, StrV(sBar))
  \/ \E e \in Receivers, kvs \in {<<StrV(sFoo)>>, <<IntV(12), StrV(sFoo)>>} :
       CallWithFields(e, kvs)
  \/ \E err \in HeadErrs(heap) : CallFatal(err, SiteA)

SpecBuild == InitBuild /\ [][NextBuild]_vars

\* following Cause from err ends, at a node without cause or at a foreign
\* error, without coming to a node of `seen` or to one passed on the way
RECURSIVE CauseWalkEnds(_, _, _)
CauseWalkEnds(h, err, seen) ==
  IF err.t # "*Error" THEN TRUE
  ELSE IF err.id \in seen \/ err.id \notin 1..Len(h) THEN FALSE
  ELSE CauseWalkEnds(h, h[err.id].Cause, seen \cup {err.id})

(***************************************************************************)
(* C18: in every state reached by calls of New, Wrap, WithField,           *)
(* WithFields and Fatal on nodes built before and foreign errors, following*)
(* Cause from any node never comes back to a node already passed and ends  *)
(* at a node without cause or at a foreign error, so the recursions of Is, *)
(* Message, Fields, Stack and Error end on every chain.                    *)
(***************************************************************************)
C18_ChainsAcyclic ==
  \A n \in 1..Len(heap) : CauseWalkEnds(heap, PtrV(n), {})

\* a wrapper of a wrapper of a node over a foreign error
C18_Witness ==
  /\ call.op = "Wrap" /\ ~call.panicked /\ call.ret.id # 0
  /\ Len(ChainIds(heap, call.ret)) = 3
  /\ ChainTerminal(heap, call.ret) = ForeignV(1)
  /\ \E n \in 1..Len(heap) : heap[n].Fields # 0

(***************************************************************************)
(* SpecFrame: chains whose nodes hold different maps, handed to every      *)
(* function that reads a chain.                                            *)
(***************************************************************************)
FrameLevels ==
  [kind : {kTest}, msg : {sOops}, has : {FALSE}, kvs : {<<>>}, site : {SiteA}]
    \cup [kind : {kTest}, msg : {sOops}, has : {TRUE},
          kvs : {<<StrV(sFoo), StrV(sBar)>>,
                 <<StrV(sFoo), StrV(sQux), StrV(sBaz), StrV(sBar)>>},
          site : {SiteA}]

InitFrame == InitChain(FrameLevels, MaxDepth, {NilV, ForeignV(1)})

NextFrame ==
  /\ call.op = "none"
  /\ \/ \E err \in Errs(heap) :
          \/ \E kind \in SeqsUpTo({KindV(kTest), KindV(kIO)}, MaxTags) :
               CallIs(err, kind)
          \/ CallMessage(err)
          \/ CallFields(err)
          \/ CallFieldsSlice(err)
          \/ CallStack(err)
     \/ \E e \in 1..Len(heap) :
          \/ CallError(e)
          \/ \E plus \in BOOLEAN : CallFormat(e, <<118>>, plus)

SpecFrame == InitFrame /\ [][NextFrame]_vars

\* the step of a function that reads a chain
C19_Step ==
  call'.op \in {"Is", "Message", "Fields", "FieldsSlice", "Stack", "Error",
                "Format"}
    => /\ heap' = heap
       /\ Len(maps') >= Len(maps)
       /\ \A i \in 1..Len(maps) : maps'[i] = maps[i]
       /\ call'.op = "Stack" => Stack(heap', call'.err) = call'.ret
       /\ call'.op = "Fields" =>
            /\ Fields(heap', maps', call'.err).val = call'.ret.val
            /\ Fields(heap', maps', call'.err).isnil = call'.ret.isnil

(***************************************************************************)
(* C19: Is, Message, Fields, FieldsSlice, Stack, Error and Format leave    *)
(* every node as it was, with its kind, message, cause and call site, and  *)
(* leave the contents of every node's own map as they were, also when      *)
(* Fields merges the maps of several nodes; Stack and Fields called again  *)
(* after the call return what the call returned.                           *)
(***************************************************************************)
C19_QueriesReadOnly == [][C19_Step]_vars

\* Fields merged the maps of two nodes that hold the same key with
\* different values into a map of its own
C19_Witness ==
  LET ids == ChainIds(heap, call.err) IN
  /\ call.op = "Fields" /\ ~call.panicked
  /\ Len(ids) >= 2
  /\ heap[ids[1]].Fields # 0 /\ heap[ids[2]].Fields # 0
  /\ maps[heap[ids[1]].Fields][sFoo] = StrV(sQux)
  /\ maps[heap[ids[2]].Fields][sFoo] = StrV(sBar)
  /\ sBaz \notin DOMAIN maps[heap[ids[2]].Fields]
  /\ call.ret.ref \notin {heap[n].Fields : n \in 1..Len(heap)}
  /\ call.ret.val[sFoo] = StrV(sQux) /\ sBaz \in DOMAIN call.ret.val

\* the step of a call of WithFields that panics on a node: the node and
\* the maps are as before the call
C20_OriginalStep ==
  (call'.op = "WithFields" /\ call'.panicked /\ call'.recv # 0)
    => (heap' = heap /\ maps' = maps)

(***************************************************************************)
(* C20 as stated: when WithFields panics, on a list of odd length or on a  *)
(* non-string at a key position, the receiver is as it was before the      *)
(* call: no map was allocated for it and no pair of the call was attached. *)
(***************************************************************************)
C20_Original == [][C20_OriginalStep]_vars

\* the pairs of kvs before the first key position that holds a non-string
PairsBeforeBadKey(kvs) ==
  LET bad == {i \in KeyPositions(kvs) : kvs[i].t # "string"} IN
  SubSeq(kvs, 1, Min(bad) - 1)

\* the step of a call of WithFields that panics on a node
C20_Step ==
  (call'.op = "WithFields" /\ call'.panicked /\ call'.recv # 0)
    => LET e == call'.recv
           kvs == call'.args
       IN IF Len(kvs) % 2 # 0
          THEN heap' = heap /\ maps' = maps
          ELSE LET prior == PairsBeforeBadKey(kvs)
                   f == heap'[e].Fields
                   old == IF heap[e].Fields = 0 THEN EmptyMap
                          ELSE maps[heap[e].Fields]
               IN /\ f # 0
                  /\ heap[e].Fields # 0 => f = heap[e].Fields
                  /\ heap[e].Fields = 0 => f = Len(maps) + 1
                  /\ heap' = [heap EXCEPT ![e].Fields = f]
                  /\ \A i \in 1..Len(maps) : i # f => maps'[i] = maps[i]
                  /\ DOMAIN maps'[f] = (DOMAIN old) \cup NamedKeys(prior)
                  /\ \A k \in NamedKeys(prior) : maps'[f][k] = LastValue(prior, k)
                  /\ \A k \in (DOMAIN old) \ NamedKeys(prior) : maps'[f][k] = old[k]

(***************************************************************************)
(* C20 amended: when WithFields panics on a list of odd length the         *)
(* receiver is as it was before the call, no map allocated and no pair     *)
(* attached; when it panics on a non-string at a key position the receiver *)
(* has a map, allocated by the call if it had none, that holds what it     *)
(* held before and the pairs that precede that position, and nothing else  *)
(* of the receiver has changed.                                            *)
(***************************************************************************)
C20_FatalWithFieldsEffect == [][C20_Step]_vars

\* WithFields panicked on the key of its second pair: the first pair is
\* attached
C20_Witness ==
  /\ call.op = "WithFields" /\ call.panicked /\ call.recv # 0
  /\ Len(call.args) = 4
  /\ call.args[1] = StrV(sFoo) /\ call.args[2] = IntV(1234)
  /\ call.args[3].t = "int"
  /\ heap[call.recv].Fields # 0
  /\ maps[heap[call.recv].Fields][sFoo] = IntV(1234)

(***************************************************************************)
(* SpecWrapIs: a node of a drawn chain or a foreign error c is wrapped by  *)
(* Wrap, and Is is asked whether the wrapper is c: every call of Is is     *)
(* Is(Wrap(c, ...), c) for the call of Wrap made just before.              *)
(***************************************************************************)
InitWrapIs == InitChain(IsLevels, MaxDepth, {NilV, ForeignV(1)})

NextWrapIs ==
  \/ /\ call.op = "none"
     /\ \E cause \in {ForeignV(1), ForeignV(2)} \cup {PtrV(i) : i \in 1..Len(heap)},
           args \in {<<>>, <<KindV(kTest), StrV(sInner)>>, <<ForeignV(2)>>}
                     \cup {<<PtrV(i)>> : i \in {Len(heap)} \ {0}},
           site \in Sites :
          CallWrap(cause, args, site)
  \/ /\ call.op = "Wrap"
     /\ CallIs(call.ret, <<call.err>>)

SpecWrapIs == InitWrapIs /\ [][NextWrapIs]_vars

(***************************************************************************)
(* C21: given one argument that is neither a Kind nor a string, Is returns *)
(* true exactly when some node of the chain holds that very value as its   *)
(* cause; the cause stored by Wrap for an *Error is a copy, so             *)
(* Is(Wrap(c, ...), c) is true for a foreign error c and false for an      *)
(* *Error c, no node of the wrapper's chain holding c itself as its cause. *)
(***************************************************************************)
C21_IsByIdentity ==
  (call.op = "Is" /\ Len(call.args) = 1)
    => LET c == call.args[1]
           ids == ChainIds(heap, call.err)
       IN /\ ~call.panicked
          /\ call.ret = (\E n \in Range(ids) : heap[n].Cause = c)
          /\ c.t = "error" => (call.ret = TRUE /\ heap[ids[1]].Cause = c)
          /\ c.t = "*Error" =>
               /\ call.ret = FALSE
               /\ heap[ids[1]].Cause.t = "*Error"
               /\ heap[ids[1]].Cause.id # c.id
               /\ heap[heap[ids[1]].Cause.id] = heap[c.id]

\* Is said no for the node that was wrapped, the head of a chain of two
\* nodes over a foreign error, while the wrapper's cause is a copy of it
C21_Witness ==
  LET ids == ChainIds(heap, call.err) IN
  /\ call.op = "Is" /\ ~call.panicked /\ call.ret = FALSE
  /\ Len(call.args) = 1 /\ call.args[1].t = "*Error"
  /\ Len(ids) = 3
  /\ ChainTerminal(heap, call.err) = ForeignV(1)
  /\ heap[ids[2]] = heap[call.args[1].id]
  /\ ids[2] # call.args[1].id
  /\ heap[call.args[1].id].Cause.t = "*Error"

=============================================================================
